---- MODULE Spec2Model ----
(***************************************************************************)
(* Model of the freud histogram framework (NdHistogram / PMFT, PMFT.h),    *)
(* of LocalDescriptors::compute and of PMFTXYTM2D::compute.                *)
(*                                                                         *)
(* One object is exercised per behaviour: `obj` says which.  The objects   *)
(* share no state, so the reachable states of the program are the union of *)
(* the reachable states of each object.                                    *)
(***************************************************************************)
EXTENDS Integers, Sequences, FiniteSets, TLC

(***************************************************************************)
(* Bounds of the model.                                                    *)
(***************************************************************************)
MaxRef == 2        \* reference (query) points: indices 0 .. MaxRef-1
MaxP == 1          \* points of a histogram: indices 0 .. MaxP-1
MaxPoints == 2     \* points of LocalDescriptors::compute
MaxNref == 2       \* reference points of PMFTXYTM2D::compute
MaxNp == 2         \* points of PMFTXYTM2D::compute
MaxBonds == 2      \* bonds in a neighbor list
MaxFrames == 2     \* successful accumulate calls on one histogram object
NumWorkers == 2    \* TBB worker threads
BinSize == 2       \* bin_size: number of bins of the (linearised) histogram
MaxCand == 4       \* raw candidates of one reference point handed to FilterSANN

Workers == 0 .. (NumWorkers - 1)
Bins == 0 .. (BinSize - 1)
BoxVolumes == {1, 2}   \* volumes of the boxes handed to accumulate

VARIABLES
    obj,                 \* which object this behaviour exercises
    \* ---- NdHistogram / PMFT fields (PMFT.h) ----
    m_box,               \* box::Box m_box, by its volume (getVolume())
    m_frame_counter,     \* unsigned int m_frame_counter
    m_n_ref,             \* unsigned int m_n_ref
    m_n_p,               \* unsigned int m_n_p
    m_reduce,            \* bool m_reduce
    m_pcf_array,         \* float array behind m_pcf_array
    m_bin_counts,        \* unsigned int array behind m_bin_counts
    m_local_bin_counts,  \* enumerable_thread_specific<unsigned int*>:
                         \* worker -> its array, for the workers that have one
    \* ---- observation of the last NdHistogram call ----
    lastOp,              \* name of the last call (and how it ended)
    ranReduce,           \* the last call ran reduce()
    ret,                 \* what a getter's returned pointer shows on return
    expected,            \* per bin: bonds of all successful accumulates there
    getterReduces,       \* reduce() runs made by getters since last accumulate
    reduceStreak,        \* explicit reduce() calls in a row (saturates at 2)
    firstReduced,        \* result of the first reduce since accumulate/reset
    \* ---- one parallel_for of accumulateGeneral, looked at task by task ----
    pf,                  \* its inputs, and once it has run its outcome
    \* ---- LocalDescriptors fields (LocalDescriptors.cc) ----
    m_sphArray,          \* util::ManagedArray m_sphArray, one row per bond
    m_n_points,          \* unsigned int m_n_points
    m_nSphs,             \* unsigned int m_nSphs
    ldLastOp,            \* how the last LocalDescriptors::compute ended
    ldWrites,            \* <<first index of the task's block, row written>>
    ldCall,              \* the last call that validate let through: its
                         \* arguments and the elements it read
    \* ---- one PMFTXYTM2D object and the compute call in progress ----
    pcf_array,           \* the caller's array compute increments
    pm_build,            \* how the build converts float bins to unsigned
    pm_pc,               \* "idle", "running" in compute's parallel_for, then
                         \* "returned" or "thrown"; "rejected" by computePy
    pm_in,               \* the arguments of the compute call
    pm_tasks,            \* first index of a block -> where its task stands
    pmWrites,            \* <<first index of the task's block, bin written>>
    pm_gil,              \* the calling thread holds the interpreter lock
    \* ---- one reduce3D call, looked at task by task ----
    rd,                  \* its inputs, and once it has run its outcome
    \* ---- one constructor call ----
    ctor,                \* class, arguments, and once it has run how it ended
    \* ---- one LocalWl object and its compute call ----
    wl,                  \* m_rmax, the points, m_Qlmi and the neighbour counts
    \* ---- one FilterSANN object and its compute call ----
    sann,                \* the flag, the raw candidates, the state of every
                         \* reference point, and how the call ended
    \* ---- one PMFTXYTM2D object from its constructor to its destructor ----
    pmc                  \* its fields, m_lc, and what its calls did

histVars == <<m_box, m_frame_counter, m_n_ref, m_n_p, m_reduce, m_pcf_array,
              m_bin_counts, m_local_bin_counts>>
histObs == <<lastOp, ranReduce, ret, expected, getterReduces, reduceStreak,
             firstReduced>>

ldVars == <<m_sphArray, m_n_points, m_nSphs, ldLastOp, ldWrites, ldCall>>

pmVars == <<pcf_array, pm_build, pm_pc, pm_in, pm_tasks, pmWrites, pm_gil>>

\* the calls looked at on their own
callVars == <<rd, ctor, wl, sann, pmc>>

notHist == <<pf, ldVars, pmVars, callVars>>

vars == <<obj, histVars, histObs, notHist>>

(***************************************************************************)
(* Helpers.                                                                *)
(***************************************************************************)
Min(a, b) == IF a < b THEN a ELSE b

RECURSIVE Gcd(_, _)
Gcd(a, b) == IF b = 0 THEN a ELSE Gcd(b, a % b)

\* number of positions of the sequence s that hold x
Count(s, x) == Cardinality({k \in 1 .. Len(s) : s[k] = x})

ZeroCounts == [b \in Bins |-> 0]

\* A float of the normalised array: a finite ratio n/d in lowest terms, or
\* the IEEE results of a division by zero.
Fin(n, d) == [k |-> "fin", n |-> n, d |-> d]
NaN == [k |-> "nan", n |-> 0, d |-> 0]
Inf == [k |-> "inf", n |-> 0, d |-> 0]
ZeroPcf == [b \in Bins |-> Fin(0, 1)]

(***************************************************************************)
(* Float arithmetic of the normalisation, on non-negative values.          *)
(***************************************************************************)
\* int / int as a float: x/0 is inf for x > 0 and NaN for x = 0
Div(n, d) ==
    IF d = 0 THEN (IF n = 0 THEN NaN ELSE Inf)
    ELSE LET g == Gcd(n, d) IN Fin(n \div g, d \div g)

\* float * float
Mul(a, b) ==
    IF a.k = "nan" \/ b.k = "nan" THEN NaN
    ELSE IF a.k = "inf" THEN (IF b.k = "fin" /\ b.n = 0 THEN NaN ELSE Inf)
    ELSE IF b.k = "inf" THEN (IF a.n = 0 THEN NaN ELSE Inf)
    ELSE Div(a.n * b.n, a.d * b.d)

(***************************************************************************)
(* NeighborList: bonds sorted by reference index, with the point counts it *)
(* was built for.  bonds[b + 1] = <<i, j>> is bond number b.               *)
(***************************************************************************)
BondsOver(nq, np) ==
    LET pairs == (0 .. (nq - 1)) \X (0 .. (np - 1))
    IN {s \in UNION {[1 .. n -> pairs] : n \in 0 .. MaxBonds} :
           \A k \in 1 .. (Len(s) - 1) : s[k][1] <= s[k + 1][1]}

NListsFor(maxq, maxp) ==
    UNION {{[bonds |-> s, nq |-> nq, np |-> np] : s \in BondsOver(nq, np)} :
              <<nq, np>> \in (0 .. maxq) \X (0 .. maxp)}

\* the lists handed to a histogram, and those handed to LocalDescriptors
NLists == NListsFor(MaxRef, MaxP)
LdLists == NListsFor(MaxRef, MaxPoints)

getNumBonds(nlist) == Len(nlist.bonds)

\* validate(n_query_points, n_points): TRUE when it returns, FALSE when it
\* throws
validate(nlist, n_query_points, n_points) ==
    /\ nlist.nq = n_query_points
    /\ nlist.np = n_points
    /\ \A k \in 1 .. Len(nlist.bonds) :
           /\ nlist.bonds[k][1] < n_query_points
           /\ nlist.bonds[k][2] < n_points

RECURSIVE bisection_search(_, _, _, _)
\* smallest offset in [left, right] whose reference index is >= val
bisection_search(bonds, val, left, right) ==
    IF left >= right THEN left
    ELSE LET middle == (left + right) \div 2
         IN IF bonds[middle + 1][1] < val
            THEN bisection_search(bonds, val, middle + 1, right)
            ELSE bisection_search(bonds, val, left, middle)

\* first offset whose reference index is i, or the insertion point of i
find_first_index(nlist, i) == bisection_search(nlist.bonds, i, 0, Len(nlist.bonds))

(***************************************************************************)
(* NdHistogram::accumulateGeneral, the body of one worker task.            *)
(***************************************************************************)
\* the bin cf(i, j) increments
BinOf(i, j) == (i + j) % BinSize

\* every thread is handed the array of thread 0
local_shared(w) == 0

\* m_local_bin_counts.local() on thread w: the thread whose array it yields
local(w) == w

\* cf(i, j) run by thread w on the thread-local arrays `locals`
cf(locals, w, i, j) ==
    [locals EXCEPT ![local(w)] = [@ EXCEPT ![BinOf(i, j)] = @ + 1]]

RECURSIVE ScanEnd(_, _, _)
\* inner for loop: the offset at which it stops, started at `bond` for point i
ScanEnd(nlist, i, bond) ==
    IF bond < getNumBonds(nlist) /\ nlist.bonds[bond + 1][1] = i
    THEN ScanEnd(nlist, i, bond + 1)
    ELSE bond

RECURSIVE RangeCalls(_, _, _, _)
\* outer for loop from i to end with the running offset `bond`: the sequence
\* of cf(i, j) invocations it makes
RangeCalls(nlist, i, end, bond) ==
    IF i = end THEN <<>>
    ELSE LET stop == ScanEnd(nlist, i, bond)
         IN [k \in 1 .. (stop - bond) |-> <<i, nlist.bonds[bond + k][2]>>]
                \o RangeCalls(nlist, i + 1, end, stop)

\* the task with its offset started at the first bond of the list
TaskCalls_from_start(nlist, begin, end) ==
    RangeCalls(nlist, begin, end, 0)

\* the task of blocked_range [begin, end)
TaskCalls(nlist, begin, end) ==
    RangeCalls(nlist, begin, end, find_first_index(nlist, begin))

\* tbb::blocked_range<size_t>(0, n) split at `cuts`: the first index of every
\* block, and the end of the block that starts at s
BlockStarts(n, cuts) == IF n = 0 THEN {} ELSE {0} \cup cuts
BlockEnd(n, cuts, s) ==
    LET later == {c \in cuts \cup {n} : c > s}
    IN CHOOSE e \in later : \A c \in later : e <= c

RECURSIVE ApplyCalls(_, _, _)
\* thread w runs the invocations cs in order
ApplyCalls(locals, w, cs) ==
    IF cs = <<>> THEN locals
    ELSE ApplyCalls(cf(locals, w, cs[1][1], cs[1][2]), w, Tail(cs))

RECURSIVE RunTasks_fresh(_, _, _, _, _)
\* every task starts on a newly allocated, zeroed array
RunTasks_fresh(locals, nlist, n, cuts_thr, todo) ==
    IF todo = {} THEN locals
    ELSE LET s == CHOOSE x \in todo : \A y \in todo : x <= y
             w == cuts_thr.thr[s]
             have == [v \in DOMAIN locals \cup {w} |->
                         IF v = w THEN ZeroCounts ELSE locals[v]]
             cs == TaskCalls(nlist, s, BlockEnd(n, cuts_thr.cuts, s))
         IN RunTasks_fresh(ApplyCalls(have, w, cs), nlist, n, cuts_thr, todo \ {s})

RECURSIVE RunTasks(_, _, _, _, _)
\* the tasks of the blocks `todo`, block s run by thread thr[s]; a thread
\* without array gets a zeroed one first (lines 72-78)
RunTasks(locals, nlist, n, cuts_thr, todo) ==
    IF todo = {} THEN locals
    ELSE LET s == CHOOSE x \in todo : \A y \in todo : x <= y
             w == cuts_thr.thr[s]
             have == IF w \in DOMAIN locals THEN locals
                     ELSE [v \in DOMAIN locals \cup {w} |->
                              IF v = w THEN ZeroCounts ELSE locals[v]]
             cs == TaskCalls(nlist, s, BlockEnd(n, cuts_thr.cuts, s))
         IN RunTasks(ApplyCalls(have, w, cs), nlist, n, cuts_thr, todo \ {s})

RECURSIVE AllCalls(_, _, _, _)
\* the invocations of all tasks, in block order
AllCalls(nlist, n, cuts, todo) ==
    IF todo = {} THEN <<>>
    ELSE LET s == CHOOSE x \in todo : \A y \in todo : x <= y
         IN TaskCalls(nlist, s, BlockEnd(n, cuts, s))
                \o AllCalls(nlist, n, cuts, todo \ {s})

\* the splits of [0, n) and the assignments of blocks to threads
Schedules(n) ==
    UNION {{[cuts |-> c, thr |-> t] : t \in [BlockStarts(n, c) -> Workers]} :
              c \in SUBSET (1 .. (n - 1))}

(***************************************************************************)
(* State after construction.  No accumulate has run: no thread has a local *)
(* array, the reduced arrays are zero.                                     *)
(***************************************************************************)
NoSnapshot == [set |-> FALSE, counts |-> ZeroCounts, pcf |-> ZeroPcf]
NoRet == [kind |-> "none", counts |-> ZeroCounts, pcf |-> ZeroPcf]

HistInit ==
    /\ m_box = 0
    /\ m_frame_counter = 0
    /\ m_n_ref = 0
    /\ m_n_p = 0
    /\ m_reduce \in BOOLEAN
    /\ m_pcf_array = ZeroPcf
    /\ m_bin_counts = ZeroCounts
    /\ m_local_bin_counts = <<>>
    /\ lastOp = "init"
    /\ ranReduce = FALSE
    /\ ret = NoRet
    /\ expected = ZeroCounts
    /\ getterReduces = 0
    /\ reduceStreak = 0
    /\ firstReduced = NoSnapshot

(***************************************************************************)
(* PMFT::reduce3D and the calls that reach it.                             *)
(***************************************************************************)
\* jf(i), the Jacobian factor of the concrete statistic
jf(i) == Fin(1, 1)

\* only one of the thread-local arrays is added
AddLocals_one(counts, locals, W) ==
    IF W = {} THEN counts
    ELSE LET w == CHOOSE x \in W : TRUE
         IN [b \in Bins |-> counts[b] + locals[w][b]]

RECURSIVE AddLocals(_, _, _)
\* m_bin_counts[i] += (*local_bins)[i] over the thread-local arrays of W
AddLocals(counts, locals, W) ==
    IF W = {} THEN counts
    ELSE LET w == CHOOSE x \in W : TRUE
         IN AddLocals([b \in Bins |-> counts[b] + locals[w][b]], locals, W \ {w})

\* reduce3D with the bins and the normalised array left unzeroed at entry
reduce3D_no_memset ==
    LET counts == AddLocals(m_bin_counts, m_local_bin_counts, DOMAIN m_local_bin_counts)
        inv_num_dens == Div(m_box, m_n_p)
        norm_factor == Div(1, m_frame_counter * m_n_ref)
    IN [counts |-> counts,
        pcf |-> [i \in Bins |->
                    Mul(Mul(Mul(Div(counts[i], 1), norm_factor), jf(i)), inv_num_dens)]]

\* the reduced bin counts and the normalised array reduce3D leaves
reduce3D ==
    LET counts == AddLocals(ZeroCounts, m_local_bin_counts, DOMAIN m_local_bin_counts)
        inv_num_dens == Div(m_box, m_n_p)
        norm_factor == Div(1, m_frame_counter * m_n_ref)
    IN [counts |-> counts,
        pcf |-> [i \in Bins |->
                    Mul(Mul(Mul(Div(counts[i], 1), norm_factor), jf(i)), inv_num_dens)]]

\* the override of the concrete statistic: reduce3D with its bin counts and
\* its Jacobian
reducePCF == reduce3D

\* the first reduction since the last accumulate or reset is remembered
Snapshot(red) ==
    IF firstReduced.set THEN firstReduced
    ELSE [set |-> TRUE, counts |-> red.counts, pcf |-> red.pcf]

\* PMFT::reduce(), called by the user
reduce ==
    /\ obj = "NdHistogram"
    /\ LET red == reducePCF
       IN /\ m_bin_counts' = red.counts
          /\ m_pcf_array' = red.pcf
          /\ firstReduced' = Snapshot(red)
    /\ lastOp' = "reduce"
    /\ ranReduce' = TRUE
    /\ ret' = NoRet
    /\ reduceStreak' = Min(reduceStreak + 1, 2)
    /\ UNCHANGED <<obj, m_box, m_frame_counter, m_n_ref, m_n_p, m_reduce,
                   m_local_bin_counts, expected, notHist, getterReduces>>

\* returnIfReduced that leaves m_reduce as it finds it
returnIfReduced_keeps_flag(thing) ==
    /\ obj = "NdHistogram"
    /\ LET red == IF m_reduce THEN reducePCF
                  ELSE [counts |-> m_bin_counts, pcf |-> m_pcf_array]
       IN /\ m_bin_counts' = red.counts
          /\ m_pcf_array' = red.pcf
          /\ firstReduced' = IF m_reduce THEN Snapshot(red) ELSE firstReduced
          /\ ret' = IF thing = "pcf"
                    THEN [kind |-> "pcf", counts |-> ZeroCounts, pcf |-> red.pcf]
                    ELSE [kind |-> "counts", counts |-> red.counts, pcf |-> ZeroPcf]
    /\ ranReduce' = m_reduce
    /\ getterReduces' = IF m_reduce THEN getterReduces + 1 ELSE getterReduces
    /\ m_reduce' = m_reduce
    /\ lastOp' = IF thing = "pcf" THEN "getPCF" ELSE "getBinCounts"
    /\ reduceStreak' = 0
    /\ UNCHANGED <<obj, m_box, m_frame_counter, m_n_ref, m_n_p,
                   m_local_bin_counts, expected, notHist>>

\* returnIfReduced that reduces whatever the flag
returnIfReduced_always(thing) ==
    /\ obj = "NdHistogram"
    /\ LET red == reducePCF
       IN /\ m_bin_counts' = red.counts
          /\ m_pcf_array' = red.pcf
          /\ firstReduced' = Snapshot(red)
          /\ ret' = IF thing = "pcf"
                    THEN [kind |-> "pcf", counts |-> ZeroCounts, pcf |-> red.pcf]
                    ELSE [kind |-> "counts", counts |-> red.counts, pcf |-> ZeroPcf]
    /\ ranReduce' = TRUE
    /\ getterReduces' = getterReduces + 1
    /\ m_reduce' = FALSE
    /\ lastOp' = IF thing = "pcf" THEN "getPCF" ELSE "getBinCounts"
    /\ reduceStreak' = 0
    /\ UNCHANGED <<obj, m_box, m_frame_counter, m_n_ref, m_n_p,
                   m_local_bin_counts, expected, notHist>>

\* returnIfReduced(thing_to_return): the pointer handed back is the one the
\* object holds, and reduce3D writes the arrays in place, so the caller sees
\* the arrays as they are when the call returns
returnIfReduced(thing) ==
    /\ obj = "NdHistogram"
    /\ LET red == IF m_reduce THEN reducePCF
                  ELSE [counts |-> m_bin_counts, pcf |-> m_pcf_array]
       IN /\ m_bin_counts' = red.counts
          /\ m_pcf_array' = red.pcf
          /\ firstReduced' = IF m_reduce THEN Snapshot(red) ELSE firstReduced
          /\ ret' = IF thing = "pcf"
                    THEN [kind |-> "pcf", counts |-> ZeroCounts, pcf |-> red.pcf]
                    ELSE [kind |-> "counts", counts |-> red.counts, pcf |-> ZeroPcf]
    /\ ranReduce' = m_reduce
    /\ getterReduces' = IF m_reduce THEN getterReduces + 1 ELSE getterReduces
    /\ m_reduce' = FALSE
    /\ lastOp' = IF thing = "pcf" THEN "getPCF" ELSE "getBinCounts"
    /\ reduceStreak' = 0
    /\ UNCHANGED <<obj, m_box, m_frame_counter, m_n_ref, m_n_p,
                   m_local_bin_counts, expected, notHist>>

getPCF == returnIfReduced("pcf")

getBinCounts == returnIfReduced("counts")

\* a reset that zeroes the arrays and asks for a reduction
reset_needs_reduction ==
    /\ obj = "NdHistogram"
    /\ m_bin_counts' = ZeroCounts
    /\ m_pcf_array' = ZeroPcf
    /\ m_reduce' = TRUE
    /\ firstReduced' = NoSnapshot
    /\ lastOp' = "reset"
    /\ ranReduce' = FALSE
    /\ ret' = NoRet
    /\ reduceStreak' = 0
    /\ UNCHANGED <<obj, m_box, m_frame_counter, m_n_ref, m_n_p,
                   m_local_bin_counts, expected, notHist, getterReduces>>

\* reset(): the reduced histogram is zeroed and the flag cleared
reset ==
    /\ obj = "NdHistogram"
    /\ m_bin_counts' = ZeroCounts
    /\ m_pcf_array' = ZeroPcf
    /\ m_reduce' = FALSE
    /\ firstReduced' = NoSnapshot
    /\ lastOp' = "reset"
    /\ ranReduce' = FALSE
    /\ ret' = NoRet
    /\ reduceStreak' = 0
    /\ UNCHANGED <<obj, m_box, m_frame_counter, m_n_ref, m_n_p,
                   m_local_bin_counts, expected, notHist, getterReduces>>

(***************************************************************************)
(* NdHistogram::accumulateGeneral.                                         *)
(***************************************************************************)
\* per bin, the number of bonds of the list that cf puts there
BondBins(bonds) == [b \in Bins |-> Cardinality({k \in 1 .. Len(bonds) :
                                                   BinOf(bonds[k][1], bonds[k][2]) = b})]

\* the writes of the tasks: thread, thread whose array is written, bin
TaskWrites(nlist, n, sched) ==
    UNION {{<<sched.thr[s], local(sched.thr[s]), BinOf(c[1], c[2])>> :
               c \in {TaskCalls(nlist, s, BlockEnd(n, sched.cuts, s))[k] :
                         k \in 1 .. Len(TaskCalls(nlist, s, BlockEnd(n, sched.cuts, s)))}} :
              s \in BlockStarts(n, sched.cuts)}

\* validate throws with the frame already counted
accumulateThrows_counted(box) ==
    /\ m_box' = box
    /\ m_frame_counter' = m_frame_counter + 1
    /\ lastOp' = "accumulate_throw"
    /\ ranReduce' = FALSE
    /\ ret' = NoRet
    /\ reduceStreak' = 0
    /\ firstReduced' = NoSnapshot
    /\ UNCHANGED <<obj, m_n_ref, m_n_p, m_reduce, m_pcf_array,
                   m_bin_counts, m_local_bin_counts, expected, getterReduces, notHist>>

\* lines 67-68 when validate throws: the box is stored, the call ends
accumulateThrows(box) ==
    /\ m_box' = box
    /\ lastOp' = "accumulate_throw"
    /\ ranReduce' = FALSE
    /\ ret' = NoRet
    /\ reduceStreak' = 0
    /\ firstReduced' = NoSnapshot
    /\ UNCHANGED <<obj, m_frame_counter, m_n_ref, m_n_p, m_reduce, m_pcf_array,
                   m_bin_counts, m_local_bin_counts, expected, getterReduces, notHist>>

\* the tasks start from new thread-local arrays: the bonds of earlier calls
\* are dropped
accumulateReturns_restart(box, n_ref, nlist, n_p, sched) ==
    /\ m_box' = box
    /\ m_local_bin_counts' = RunTasks(<<>>, nlist, n_ref, sched,
                                      BlockStarts(n_ref, sched.cuts))
    /\ m_frame_counter' = m_frame_counter + 1
    /\ m_n_ref' = n_ref
    /\ m_n_p' = n_p
    /\ m_reduce' = TRUE
    /\ lastOp' = "accumulate"
    /\ ranReduce' = FALSE
    /\ ret' = NoRet
    /\ expected' = [b \in Bins |-> expected[b] + BondBins(nlist.bonds)[b]]
    /\ getterReduces' = 0
    /\ reduceStreak' = 0
    /\ firstReduced' = NoSnapshot
    /\ UNCHANGED <<obj, m_pcf_array, m_bin_counts, notHist>>

\* the call returns with the flag as it was
accumulateReturns_flag_kept(box, n_ref, nlist, n_p, sched) ==
    /\ m_box' = box
    /\ m_local_bin_counts' = RunTasks(m_local_bin_counts, nlist, n_ref, sched,
                                      BlockStarts(n_ref, sched.cuts))
    /\ m_frame_counter' = m_frame_counter + 1
    /\ m_n_ref' = n_ref
    /\ m_n_p' = n_p
    /\ m_reduce' = m_reduce
    /\ lastOp' = "accumulate"
    /\ ranReduce' = FALSE
    /\ ret' = NoRet
    /\ expected' = [b \in Bins |-> expected[b] + BondBins(nlist.bonds)[b]]
    /\ getterReduces' = 0
    /\ reduceStreak' = 0
    /\ firstReduced' = NoSnapshot
    /\ UNCHANGED <<obj, m_pcf_array, m_bin_counts, notHist>>

\* lines 67-94 when validate returns: the tasks run, then the frame is
\* counted and the flag set
accumulateReturns(box, n_ref, nlist, n_p, sched) ==
    /\ m_box' = box
    /\ m_local_bin_counts' = RunTasks(m_local_bin_counts, nlist, n_ref, sched,
                                      BlockStarts(n_ref, sched.cuts))
    /\ m_frame_counter' = m_frame_counter + 1
    /\ m_n_ref' = n_ref
    /\ m_n_p' = n_p
    /\ m_reduce' = TRUE
    /\ lastOp' = "accumulate"
    /\ ranReduce' = FALSE
    /\ ret' = NoRet
    /\ expected' = [b \in Bins |-> expected[b] + BondBins(nlist.bonds)[b]]
    /\ getterReduces' = 0
    /\ reduceStreak' = 0
    /\ firstReduced' = NoSnapshot
    /\ UNCHANGED <<obj, m_pcf_array, m_bin_counts, notHist>>

accumulateGeneral(box, n_ref, nlist, n_p, sched) ==
    /\ obj = "NdHistogram"
    /\ IF validate(nlist, n_ref, n_p)
       THEN /\ m_frame_counter < MaxFrames
            /\ accumulateReturns(box, n_ref, nlist, n_p, sched)
       ELSE accumulateThrows(box)

\* a list built for MaxRef and MaxP points, handed over with other counts
MismatchedFor(maxq, maxp) ==
    LET l == [bonds |-> [k \in 1 .. MaxBonds |-> <<maxq - 1, maxp - 1>>],
              nq |-> maxq, np |-> maxp]
    IN {[nlist |-> l, n_ref |-> a, n_p |-> b] :
           <<a, b>> \in ((0 .. maxq) \X (0 .. maxp)) \ {<<maxq, maxp>>}}

Mismatched == MismatchedFor(MaxRef, MaxP)
LdMismatched == MismatchedFor(MaxRef, MaxPoints)

NoSchedule == [cuts |-> {}, thr |-> <<>>]

accumulate ==
    /\ obj = "NdHistogram"
    /\ \/ \E box \in BoxVolumes, nlist \in NLists :
              \E sched \in Schedules(nlist.nq) :
                  accumulateGeneral(box, nlist.nq, nlist, nlist.np, sched)
       \/ \E box \in BoxVolumes, in \in Mismatched :
              accumulateGeneral(box, in.n_ref, in.nlist, in.n_p, NoSchedule)

(***************************************************************************)
(* The parallel_for of accumulateGeneral on its own: a validated list, a   *)
(* split of [0, n_ref) into blocks, a thread for every block, and threads  *)
(* that may or may not have their array from an earlier call.              *)
(***************************************************************************)
PfIdle == [pc |-> "idle", nlist |-> [bonds |-> <<>>, nq |-> 0, np |-> 0],
           sched |-> NoSchedule, locals |-> <<>>, before |-> <<>>,
           calls |-> <<>>, allocs |-> {}, writes |-> {}]

\* the array of a thread that counted one bond per bin in earlier calls
PriorCounts == [b \in Bins |-> 1]

\* the threads of W hold an array from earlier accumulate calls
PfInputs(l, sc, W) ==
    [pc |-> "ready", nlist |-> l, sched |-> sc,
     locals |-> [w \in W |-> PriorCounts],
     before |-> [w \in W |-> PriorCounts],
     calls |-> <<>>, allocs |-> {}, writes |-> {}]

parallel_for ==
    /\ obj = "parallel_for"
    /\ pf.pc = "ready"
    /\ LET n == pf.nlist.nq
           starts == BlockStarts(n, pf.sched.cuts)
           after == RunTasks(pf.locals, pf.nlist, n, pf.sched, starts)
       IN pf' = [pf EXCEPT !.pc = "done",
                           !.locals = after,
                           !.calls = AllCalls(pf.nlist, n, pf.sched.cuts, starts),
                           !.allocs = DOMAIN after \ DOMAIN pf.locals,
                           !.writes = TaskWrites(pf.nlist, n, pf.sched)]
    /\ UNCHANGED <<obj, histVars, histObs, ldVars, pmVars, callVars>>

(***************************************************************************)
(* PMFT::reduce3D on its own: the thread-local arrays it finds, and the     *)
(* split of [0, bin_size) into the blocks of its two parallel_for loops.    *)
(***************************************************************************)
RdIdle == [pc |-> "idle", locals |-> <<>>, before |-> <<>>, cuts |-> {},
           counts |-> ZeroCounts, countWrites |-> {}, pcfWrites |-> {}]

RdInputs(locals, cuts) ==
    [pc |-> "ready", locals |-> locals, before |-> locals, cuts |-> cuts,
     counts |-> ZeroCounts, countWrites |-> {}, pcfWrites |-> {}]

\* a task that starts at the first bin whatever its block
ReduceBins_from_zero(begin, end) == 0 .. (end - 1)

\* lines 173 and 189: the bins i of the task of blocked_range [begin, end)
ReduceBins(begin, end) == begin .. (end - 1)

\* lines 175-180 for bin i: what the loop over the thread-local arrays adds
ReduceBinSum(locals, i) == AddLocals(ZeroCounts, locals, DOMAIN locals)[i]

\* the blocks whose task handles bin i
ReduceTasksOf(cuts, i) ==
    {s \in BlockStarts(BinSize, cuts) : i \in ReduceBins(s, BlockEnd(BinSize, cuts, s))}

\* lines 170-182: the memset, then every task adds to its bins
ReduceCounts(locals, cuts) ==
    [i \in Bins |-> Cardinality(ReduceTasksOf(cuts, i)) * ReduceBinSum(locals, i)]

reduce3D_tasks ==
    /\ obj = "reduce3D"
    /\ rd.pc = "ready"
    /\ LET writes == {<<s, i>> \in BlockStarts(BinSize, rd.cuts) \X Bins :
                         s \in ReduceTasksOf(rd.cuts, i)}
       IN rd' = [rd EXCEPT !.pc = "done",
                           !.counts = ReduceCounts(rd.locals, rd.cuts),
                           !.countWrites = writes,
                           !.pcfWrites = writes]
    /\ UNCHANGED <<obj, histVars, histObs, pf, ldVars, pmVars, ctor, wl, sann, pmc>>

(***************************************************************************)
(* LocalDescriptors::compute.  A row of m_sphArray is ZeroRow as prepare   *)
(* leaves it, or <<i, j>>: the harmonics of the bond from i to j.          *)
(***************************************************************************)
ZeroRow == <<>>

Orientations == {"LocalNeighborhood", "ParticleLocal", "Global", "other"}

NoLdCall == [nlist |-> [bonds |-> <<>>, nq |-> 0, np |-> 0], n_points |-> 0,
             n_query_points |-> 0, orientation |-> "none", reads |-> {}]

LdInit ==
    /\ m_sphArray = <<>>
    /\ m_n_points = 0
    /\ m_nSphs = 0
    /\ ldLastOp = "init"
    /\ ldWrites = {}
    /\ ldCall = NoLdCall

\* m_sphArray.prepare({rows, getSphWidth()}): an array of that shape, zeroed
prepare(rows) == [b \in 1 .. rows |-> ZeroRow]

\* lines 99-122 for point i: the rows written, as <<bond, i, j>>
BondRows(nlist, i) ==
    LET bond == find_first_index(nlist, i)
        stop == ScanEnd(nlist, i, bond)
    IN {<<b, i, nlist.bonds[b + 1][2]>> : b \in bond .. (stop - 1)}

\* the task of blocked_range [begin, end)
LdTaskRows(nlist, begin, end) ==
    UNION {BondRows(nlist, i) : i \in begin .. (end - 1)}

\* all tasks of the parallel_for over [0, n)
LdAllRows(nlist, n, cuts) ==
    UNION {LdTaskRows(nlist, s, BlockEnd(n, cuts, s)) : s \in BlockStarts(n, cuts)}

\* std::copy of the harmonics into the rows
WriteRows(arr, rows) ==
    [b \in DOMAIN arr |->
        IF \E r \in rows : r[1] + 1 = b
        THEN LET r == CHOOSE r \in rows : r[1] + 1 = b IN <<r[2], r[3]>>
        ELSE arr[b]]

\* validate throws after the array has been prepared
ldValidateThrows_prepared(nlist) ==
    /\ m_sphArray' = prepare(getNumBonds(nlist))
    /\ ldLastOp' = "throw_validate"
    /\ ldWrites' = {}
    /\ UNCHANGED <<m_n_points, m_nSphs, ldCall>>

\* line 26 when validate throws
ldValidateThrows(nlist) ==
    /\ ldLastOp' = "throw_validate"
    /\ ldWrites' = {}
    /\ UNCHANGED <<m_sphArray, m_n_points, m_nSphs, ldCall>>

\* the elements of points, query_points and orientations that the tasks
\* read: lines 36, 49, 83 and 103; with an unknown orientation mode a task
\* throws after reading its first point
LdReads(n_points, orientation, nlist, cuts) ==
    IF orientation = "other"
    THEN {<<"points", s>> : s \in BlockStarts(n_points, cuts)}
    ELSE {<<"points", i>> : i \in 0 .. (n_points - 1)}
             \cup {<<"query_points", r[3]>> : r \in LdAllRows(nlist, n_points, cuts)}
             \cup (IF orientation = "ParticleLocal"
                   THEN {<<"orientations", i>> : i \in 0 .. (n_points - 1)}
                   ELSE {})

\* lines 28-128 when validate returns
ldValidated(n_points, orientation, nlist, cuts) ==
    /\ ldCall' = [nlist |-> nlist, n_points |-> n_points, n_query_points |-> nlist.nq,
                  orientation |-> orientation,
                  reads |-> LdReads(n_points, orientation, nlist, cuts)]
    /\ IF n_points > 0 /\ orientation = "other"
       THEN \* every task throws at its first point (line 96), before any row
            /\ m_sphArray' = prepare(getNumBonds(nlist))
            /\ ldLastOp' = "throw_orientation"
            /\ ldWrites' = {}
            /\ UNCHANGED <<m_n_points, m_nSphs>>
       ELSE /\ m_sphArray' = WriteRows(prepare(getNumBonds(nlist)),
                                       LdAllRows(nlist, n_points, cuts))
            /\ m_n_points' = n_points
            /\ m_nSphs' = getNumBonds(nlist)
            /\ ldLastOp' = "returned"
            /\ ldWrites' = UNION {{<<s, r[1]>> :
                                      r \in LdTaskRows(nlist, s, BlockEnd(n_points, cuts, s))} :
                                     s \in BlockStarts(n_points, cuts)}

compute(n_points, n_query_points, orientation, nlist, cuts) ==
    /\ IF validate(nlist, n_query_points, n_points)
       THEN ldValidated(n_points, orientation, nlist, cuts)
       ELSE ldValidateThrows(nlist)
    /\ UNCHANGED <<obj, histVars, histObs, pf, pmVars, callVars>>

\* any number of calls on a LocalDescriptors object, or the first call on a
\* new one
LocalDescriptorsCompute ==
    /\ \/ obj = "LocalDescriptors"
       \/ obj = "compute" /\ ldLastOp = "init"
    /\ \/ \E nlist \in LdLists, orientation \in Orientations :
              \E cuts \in SUBSET (1 .. (nlist.np - 1)) :
                  compute(nlist.np, nlist.nq, orientation, nlist, cuts)
       \/ \E in \in LdMismatched, orientation \in Orientations :
              compute(in.n_p, in.n_ref, orientation, in.nlist, {})

(***************************************************************************)
(* PMFTXYTM2D.  Lengths are whole numbers, angles whole numbers of quarter *)
(* turns, so that wrap, the rotation and floorf are exact.                 *)
(***************************************************************************)
\* the object: a 2D box of 4 x 4 and the constructor arguments
PmBox == [Lx |-> 4, Ly |-> 4]
m_max_x == 1
m_max_y == 1
m_max_T == 2
m_dx == 1
m_dy == 1
m_dT == 2

\* constructor, lines 56-60
m_nbins_x == 2 * (m_max_x \div m_dx)
m_nbins_y == 2 * (m_max_y \div m_dy)
m_nbins_T == 2 * (m_max_T \div m_dT)

PmBins == 0 .. (m_nbins_T * m_nbins_y * m_nbins_x - 1)

\* Box::wrap in 2D: the minimum image of a displacement
wrap(d) ==
    <<((d[1] + PmBox.Lx \div 2) % PmBox.Lx) - PmBox.Lx \div 2,
      ((d[2] + PmBox.Ly \div 2) % PmBox.Ly) - PmBox.Ly \div 2>>

\* rotmat2<float>::fromAngle(a) * v, a in quarter turns
rotate(a, v) ==
    LET q == a % 4
    IN IF q = 0 THEN v
       ELSE IF q = 1 THEN <<-v[2], v[1]>>
       ELSE IF q = 2 THEN <<-v[1], -v[2]>>
       ELSE <<v[2], -v[1]>>

\* atan2(d.y, d.x) - atan2(-d.y, -d.x), in quarter turns
dThetaDiff(d) == IF d[2] >= 0 THEN 2 ELSE -2

\* a negative int seen as unsigned int is 2^32 + v; 2^31 + v stands for it
\* here (the largest numbers the model checker has), and like it lies above
\* every bin count
wrapped(v) == (2147483647 + v) + 1

\* the values a float bin can become as unsigned int: truncation to int and
\* wrap-around with SSE2; without it the cast of a negative value is
\* undefined, and yields the wrapped or the saturated value
toUnsigned(build, v) ==
    IF v >= 0 THEN {v}
    ELSE IF build = "SSE2" THEN {wrapped(v)}
    ELSE {wrapped(v), 0}

\* lines 165-219 for the pair (i, j): the bins the pair can increment (none
\* when the pair is skipped or falls outside the histogram)
PairBins(build, in, i, j) ==
    LET ref == in.ref_points[i + 1]
        point == in.points[j + 1]
        delta == wrap(<<point[1] - ref[1], point[2] - ref[2]>>)
        rsq == delta[1] * delta[1] + delta[2] * delta[2]
        rotVec == rotate(-in.ref_orientations[i + 1], delta)
        x == rotVec[1] + m_max_x
        y == rotVec[2] + m_max_y
        T == (dThetaDiff(delta) - in.ref_orientations[i + 1])
                 + in.orientations[j + 1] + m_max_T
        binx == x \div m_dx
        biny == y \div m_dy
        binT == T \div m_dT
    IN IF rsq = 0 THEN {}
       ELSE {ibinT * m_nbins_y * m_nbins_x + ibiny * m_nbins_x + ibinx :
                <<ibinx, ibiny, ibinT>> \in
                    {u \in toUnsigned(build, binx) \X toUnsigned(build, biny)
                               \X toUnsigned(build, binT) :
                        u[1] < m_nbins_x /\ u[2] < m_nbins_y /\ u[3] < m_nbins_T}}

\* lines 182-216 for the pair (i, j): TRUE when the pair can pass without an
\* increment (it is skipped at line 184, or a bin index the build can
\* produce fails the test of line 216)
PairMaySkip(build, in, i, j) ==
    LET ref == in.ref_points[i + 1]
        point == in.points[j + 1]
        delta == wrap(<<point[1] - ref[1], point[2] - ref[2]>>)
        rsq == delta[1] * delta[1] + delta[2] * delta[2]
        rotVec == rotate(-in.ref_orientations[i + 1], delta)
        x == rotVec[1] + m_max_x
        y == rotVec[2] + m_max_y
        T == (dThetaDiff(delta) - in.ref_orientations[i + 1])
                 + in.orientations[j + 1] + m_max_T
        binx == x \div m_dx
        biny == y \div m_dy
        binT == T \div m_dT
    IN \/ rsq = 0
       \/ \E u \in toUnsigned(build, binx) \X toUnsigned(build, biny)
                    \X toUnsigned(build, binT) :
              ~(u[1] < m_nbins_x /\ u[2] < m_nbins_y /\ u[3] < m_nbins_T)

\* position and orientation of the reference points and of the points
RefStates == {<<<<0, 0>>, 0>>, <<<<0, 0>>, 1>>}
PointStates == {<<<<0, 0>>, 0>>, <<<<1, 0>>, 0>>, <<<<-1, 0>>, -1>>, <<<<-2, 0>>, -1>>}

PmInputs ==
    UNION {{[Nref |-> nr, Np |-> np,
             ref_points |-> [k \in 1 .. nr |-> r[k][1]],
             ref_orientations |-> [k \in 1 .. nr |-> r[k][2]],
             points |-> [k \in 1 .. np |-> q[k][1]],
             orientations |-> [k \in 1 .. np |-> q[k][2]]] :
               r \in [1 .. nr -> RefStates], q \in [1 .. np -> PointStates]} :
              <<nr, np>> \in (0 .. MaxNref) \X (0 .. MaxNp)}

NoPmInput == [Nref |-> 0, Np |-> 0, ref_points |-> <<>>, ref_orientations |-> <<>>,
              points |-> <<>>, orientations |-> <<>>, before |-> <<>>]

\* what the caller's array holds when it is handed to computePy
PmPrior == [b \in PmBins |-> b % 2]

PmInit ==
    /\ pcf_array = PmPrior
    /\ pm_pc = "idle"
    /\ pm_in = NoPmInput
    /\ pm_tasks = <<>>
    /\ pmWrites = {}
    /\ pm_gil = TRUE

\* computePy, lines 444-469: an array of the wrong type, rank or shape makes
\* num_util throw; the lock is held throughout
computePyRejects ==
    /\ obj = "PMFTXYTM2D"
    /\ pm_pc = "idle"
    /\ pm_pc' = "rejected"
    /\ UNCHANGED <<obj, histVars, histObs, pf, ldVars, callVars, pcf_array, pm_build,
                   pm_in, pm_tasks, pmWrites, pm_gil>>

\* computePy has validated its arrays and constructed the ScopedGILRelease
\* (line 482); PMFTXYTM2D::compute is entered: parallel_for splits [0, Nref)
\* into blocks
PmComputeBegin ==
    /\ obj = "PMFTXYTM2D"
    /\ pm_pc = "idle"
    /\ \E in \in PmInputs :
           \E cuts \in SUBSET (1 .. (in.Nref - 1)) :
               /\ pm_in' = [Nref |-> in.Nref, Np |-> in.Np,
                            ref_points |-> in.ref_points,
                            ref_orientations |-> in.ref_orientations,
                            points |-> in.points, orientations |-> in.orientations,
                            before |-> pcf_array]
               /\ pm_tasks' = [s \in BlockStarts(in.Nref, cuts) |->
                                  [i |-> s, j |-> 0, end |-> BlockEnd(in.Nref, cuts, s)]]
    /\ pm_pc' = "running"
    /\ pmWrites' = {}
    /\ pm_gil' = FALSE
    /\ UNCHANGED <<obj, histVars, histObs, pf, ldVars, callVars, pcf_array, pm_build>>

\* the increment writes back the value the bin had when compute was
\* entered, plus one: the increments other pairs made in between are lost
PmTaskStep_stale(s) ==
    /\ obj = "PMFTXYTM2D"
    /\ pm_pc = "running"
    /\ s \in DOMAIN pm_tasks
    /\ pm_tasks[s].i < pm_tasks[s].end
    /\ LET t == pm_tasks[s]
       IN IF t.j >= pm_in.Np
          THEN /\ pm_tasks' = [pm_tasks EXCEPT ![s] = [t EXCEPT !.i = t.i + 1, !.j = 0]]
               /\ UNCHANGED <<pcf_array, pmWrites>>
          ELSE /\ pm_tasks' = [pm_tasks EXCEPT ![s] = [t EXCEPT !.j = t.j + 1]]
               /\ \/ /\ PairMaySkip(pm_build, pm_in, t.i, t.j)
                     /\ UNCHANGED <<pcf_array, pmWrites>>
                  \/ \E bin \in PairBins(pm_build, pm_in, t.i, t.j) :
                         /\ pcf_array' = [pcf_array EXCEPT ![bin] = pm_in.before[bin] + 1]
                         /\ pmWrites' = pmWrites \cup {<<s, bin>>}
    /\ UNCHANGED <<obj, histVars, histObs, pf, ldVars, callVars, pm_build, pm_pc, pm_in,
                   pm_gil>>

\* the task of block s handles its next pair (i, j); the increment of the
\* bin is one atomic read-modify-write (atomic<unsigned int>)
PmTaskStep(s) ==
    /\ obj = "PMFTXYTM2D"
    /\ pm_pc = "running"
    /\ s \in DOMAIN pm_tasks
    /\ pm_tasks[s].i < pm_tasks[s].end
    /\ LET t == pm_tasks[s]
       IN IF t.j >= pm_in.Np
          THEN /\ pm_tasks' = [pm_tasks EXCEPT ![s] = [t EXCEPT !.i = t.i + 1, !.j = 0]]
               /\ UNCHANGED <<pcf_array, pmWrites>>
          ELSE /\ pm_tasks' = [pm_tasks EXCEPT ![s] = [t EXCEPT !.j = t.j + 1]]
               /\ \/ /\ PairMaySkip(pm_build, pm_in, t.i, t.j)
                     /\ UNCHANGED <<pcf_array, pmWrites>>
                  \/ \E bin \in PairBins(pm_build, pm_in, t.i, t.j) :
                         /\ pcf_array' = [pcf_array EXCEPT ![bin] = @ + 1]
                         /\ pmWrites' = pmWrites \cup {<<s, bin>>}
    /\ UNCHANGED <<obj, histVars, histObs, pf, ldVars, callVars, pm_build, pm_pc, pm_in,
                   pm_gil>>

\* compute throws and the lock is not taken back
PmComputeThrows_lock_lost ==
    /\ obj = "PMFTXYTM2D"
    /\ pm_pc = "running"
    /\ pm_pc' = "thrown"
    /\ UNCHANGED <<obj, histVars, histObs, pf, ldVars, callVars, pcf_array, pm_build,
                   pm_in, pm_tasks, pmWrites, pm_gil>>

\* compute throws (an allocation fails in the cell list or in the
\* scheduler): the block of lines 481-490 is left by unwinding, which
\* destroys the ScopedGILRelease
PmComputeThrows ==
    /\ obj = "PMFTXYTM2D"
    /\ pm_pc = "running"
    /\ pm_pc' = "thrown"
    /\ pm_gil' = TRUE
    /\ UNCHANGED <<obj, histVars, histObs, pf, ldVars, callVars, pcf_array, pm_build,
                   pm_in, pm_tasks, pmWrites>>

\* every task has finished: compute returns, and the ScopedGILRelease is
\* destroyed at the end of its block (line 490)
PmComputeEnd ==
    /\ obj = "PMFTXYTM2D"
    /\ pm_pc = "running"
    /\ \A s \in DOMAIN pm_tasks : pm_tasks[s].i = pm_tasks[s].end
    /\ pm_pc' = "returned"
    /\ pm_gil' = TRUE
    /\ UNCHANGED <<obj, histVars, histObs, pf, ldVars, callVars, pcf_array, pm_build, pm_in,
                   pm_tasks, pmWrites>>

(***************************************************************************)
(* The constructors of PMFTXYTM2D and LocalWl.  A constructor ends by       *)
(* throwing std::invalid_argument or by returning the object.               *)
(***************************************************************************)
\* cutoffs, bin widths and boxes handed to the constructors
CutoffValues == {-1, 0, 1, 2}
WidthValues == {-1, 0, 1}
CtorBoxes == [Lx : {4}, Ly : {2, 4}, is2D : BOOLEAN]
LValues == {1, 2, 3, 4}

CtorIdle == [pc |-> "idle", class |-> "none", result |-> "none"]

\* PMFTXYTM2D.cc lines 33-54: TRUE when one of the checks throws
PMFTXYTM2DThrows(box, max_x, max_y, max_T, dx, dy, dT) ==
    \/ dx < 0
    \/ dy < 0
    \/ dT < 0
    \/ max_x < 0
    \/ max_y < 0
    \/ max_T < 0
    \/ dx > max_x
    \/ dy > max_y
    \/ dT > max_T
    \/ 2 * max_x > box.Lx \/ 2 * max_y > box.Ly
    \/ ~box.is2D

\* lines 56, 58, 60: int(2 * floorf(max / d)) for a width that is not zero
nbins(max, d) == 2 * (max \div d)

\* lines 56-61: with a zero width the quotient is inf or NaN and its
\* conversion to int is undefined; a build with assertions may abort
PMFTXYTM2DOutcomes(box, max_x, max_y, max_T, dx, dy, dT) ==
    IF PMFTXYTM2DThrows(box, max_x, max_y, max_T, dx, dy, dT)
    THEN {"invalid_argument"}
    ELSE IF dx = 0 \/ dy = 0 \/ dT = 0
    THEN {"constructed", "assertion_failed"}
    ELSE {"constructed"}

\* LocalWl.cc lines 20-28
LocalWlThrows(rmax, l) ==
    \/ rmax < 0
    \/ l < 2
    \/ l % 2 = 1

LocalWlOutcomes(rmax, l) ==
    IF LocalWlThrows(rmax, l) THEN {"invalid_argument"} ELSE {"constructed"}

construct ==
    /\ obj = "constructor"
    /\ ctor.pc = "ready"
    /\ \E r \in IF ctor.class = "PMFTXYTM2D"
                 THEN PMFTXYTM2DOutcomes(ctor.box, ctor.max_x, ctor.max_y, ctor.max_T,
                                         ctor.dx, ctor.dy, ctor.dT)
                 ELSE LocalWlOutcomes(ctor.rmax, ctor.l) :
           ctor' = [ctor EXCEPT !.pc = "done", !.result = r]
    /\ UNCHANGED <<obj, histVars, histObs, pf, ldVars, pmVars, rd, wl, sann, pmc>>

(***************************************************************************)
(* A PMFTXYTM2D object with its cell list, from the constructor to the     *)
(* destructor.  locality::LinkCell is not under src/: it is the cell list   *)
(* of the given cutoff, whose neighbour cells are the 3 x 3 stencil.        *)
(* Angles are whole numbers of eighth turns.                                *)
(***************************************************************************)
PmcBoxes == {[Lx |-> 8, Ly |-> 8, is2D |-> TRUE], [Lx |-> 16, Ly |-> 16, is2D |-> TRUE],
             [Lx |-> 16, Ly |-> 6, is2D |-> TRUE]}
PmcCutoffs == {1, 3}
\* max_T = dT: a full turn
PmcMaxT == 8

\* position and orientation of the reference point and of the points
PmcRefStates == {<<<<-2, 0>>, 0>>, <<<<-2, 0>>, 1>>, <<<<-1, 0>>, 0>>, <<<<-1, 0>>, 1>>}
PmcPoints == {<<2, 0>>, <<1, 0>>, <<-2, 0>>, <<0, -1>>}

PmcIdle == [pc |-> "idle"]

\* a test that looks at max_x alone
useCells_max_x(o) ==
    LET l_min == Min(o.m_box.Lx, o.m_box.Ly)
    IN 9 * (o.m_max_x * o.m_max_x) < l_min * l_min

\* useCells(), lines 365-375, with rmax < l_min / 3 squared (both sides are
\* not negative); the box is 2D
useCells(o) ==
    LET l_min == Min(o.m_box.Lx, o.m_box.Ly)
    IN 9 * (o.m_max_x * o.m_max_x + o.m_max_y * o.m_max_y) < l_min * l_min

\* line 94: the cutoff of the cell list
max_val(o) == IF o.m_max_x > o.m_max_y THEN o.m_max_x ELSE o.m_max_y

\* LinkCell: the number of cells along a side of length L, and the cell of
\* a coordinate
celldim(o, L) == IF L \div max_val(o) < 1 THEN 1 ELSE L \div max_val(o)
getCell(o, p) ==
    <<((2 * p[1] + o.m_box.Lx) * celldim(o, o.m_box.Lx)) \div (2 * o.m_box.Lx),
      ((2 * p[2] + o.m_box.Ly) * celldim(o, o.m_box.Ly)) \div (2 * o.m_box.Ly)>>

\* getCellNeighbors(cell): the cell and the eight around it, periodically
getCellNeighbors(o, cell) ==
    [k \in 1 .. 9 |->
        <<(cell[1] + ((k - 1) % 3) - 1) % celldim(o, o.m_box.Lx),
          (cell[2] + ((k - 1) \div 3) - 1) % celldim(o, o.m_box.Ly)>>]

\* Box::wrap in the object's box
PmcWrap(o, d) ==
    <<((d[1] + o.m_box.Lx \div 2) % o.m_box.Lx) - o.m_box.Lx \div 2,
      ((d[2] + o.m_box.Ly \div 2) % o.m_box.Ly) - o.m_box.Ly \div 2>>

\* -max <= c < max for c the component of the rotated vector: c = u when
\* the reference orientation is 0, c = u / sqrt(2) when it is an eighth turn
PmcInRange(a, u, max) ==
    IF a = 0 THEN -max <= u /\ u < max
    ELSE u * u < 2 * max * max

\* lines 169-219 (and 307-356) for the reference point and point j: TRUE
\* when the pair increments a bin.  The bin widths are the cutoffs, so
\* there are two bins along each axis, and a bin that is negative as a float
\* is above every bin count as unsigned int (the SSE2 conversion)
PmcBins(o, in, j) ==
    LET ref == in.ref_point
        a == in.ref_orientation
        delta == PmcWrap(o, <<in.points[j][1] - ref[1], in.points[j][2] - ref[2]>>)
        rsq == delta[1] * delta[1] + delta[2] * delta[2]
        \* rotmat2::fromAngle(-a) * delta, times sqrt(2) for an eighth turn
        rotVec == IF a = 0 THEN delta
                  ELSE <<delta[1] + delta[2], delta[2] - delta[1]>>
        T == (IF delta[2] >= 0 THEN 4 ELSE -4) - a + PmcMaxT
    IN /\ rsq # 0
       /\ PmcInRange(a, rotVec[1], o.m_max_x)
       /\ PmcInRange(a, rotVec[2], o.m_max_y)
       /\ 0 <= T /\ T < 2 * PmcMaxT

\* ComputePMFTXYTM2DWithoutCellList: the points the reference point is
\* binned with
WithoutCellList(o, in) == {j \in 1 .. Len(in.points) : PmcBins(o, in, j)}

\* ComputePMFTXYTM2DWithCellList, lines 294-304: how many times the loops
\* over the neighbour cells and their points come to point j
CellListVisits(o, in, j) ==
    LET neigh_cells == getCellNeighbors(o, getCell(o, in.ref_point))
    IN Cardinality({k \in 1 .. 9 : neigh_cells[k] = getCell(o, in.points[j])})

\* the constructor, lines 33-96
PmConstruct ==
    /\ obj = "useCells"
    /\ pmc.pc = "ready"
    /\ pmc' = IF PMFTXYTM2DThrows(pmc.m_box, pmc.m_max_x, pmc.m_max_y, PmcMaxT,
                                  pmc.m_max_x, pmc.m_max_y, PmcMaxT)
              THEN [pmc EXCEPT !.pc = "invalid_argument"]
              ELSE [pmc EXCEPT !.pc = "constructed",
                               !.m_lc = IF useCells(pmc) THEN "allocated" ELSE @]
    /\ UNCHANGED <<obj, histVars, histObs, pf, ldVars, pmVars, rd, ctor, wl, sann>>

\* compute, lines 393-434, for one reference point
PmCompute ==
    /\ obj = "useCells"
    /\ pmc.pc \in {"constructed", "computed"}
    /\ pmc' = [pmc EXCEPT
                  !.pc = "computed",
                  !.path = IF useCells(pmc) THEN "WithCellList" ELSE "WithoutCellList",
                  !.wild = @ \/ (useCells(pmc) /\ pmc.m_lc # "allocated"),
                  !.binned = IF useCells(pmc)
                             THEN {j \in 1 .. Len(pmc.in.points) :
                                      /\ CellListVisits(pmc, pmc.in, j) > 0
                                      /\ PmcBins(pmc, pmc.in, j)}
                             ELSE WithoutCellList(pmc, pmc.in)]
    /\ UNCHANGED <<obj, histVars, histObs, pf, ldVars, pmVars, rd, ctor, wl, sann>>

\* the destructor, lines 99-103
PmDestroy ==
    /\ obj = "useCells"
    /\ pmc.pc \in {"constructed", "computed"}
    /\ pmc' = [pmc EXCEPT
                  !.pc = "destroyed",
                  !.wild = @ \/ (useCells(pmc) /\ pmc.m_lc # "allocated"),
                  !.m_lc = IF useCells(pmc) THEN "deleted" ELSE @]
    /\ UNCHANGED <<obj, histVars, histObs, pf, ldVars, pmVars, rd, ctor, wl, sann>>

(***************************************************************************)
(* LocalWl::compute.  The points lie in the plane z = 0 of a box of 4 x 4;  *)
(* Y(theta, phi) of a bond is named by the bond's displacement.             *)
(***************************************************************************)
WlPoints == {<<0, 0>>, <<1, 0>>, <<-1, 0>>}
WlRmax == {1, 2}

WlIdle == [pc |-> "idle", m_rmax |-> 0, points |-> <<>>, m_Np |-> 0,
           m_Qlmi |-> <<>>, neighborcount |-> <<>>]

\* lines 89-94: the wrapped displacement from point i to point j
WlDelta(points, i, j) ==
    wrap(<<points[j + 1][1] - points[i + 1][1], points[j + 1][2] - points[i + 1][2]>>)

\* lines 98-102: for a zero displacement acos(delta.z / sqrt(rsq)) is
\* acos(0 / 0), so the harmonics are evaluated at NaN
Ylm(delta) == IF delta = <<0, 0>> THEN "nan" ELSE delta

\* lines 84-96: point j is counted as a neighbour of point i
WlCounts(points, rmax, i, j) ==
    LET delta == WlDelta(points, i, j)
    IN /\ i # j
       /\ delta[1] * delta[1] + delta[2] * delta[2] < rmax * rmax

RECURSIVE WlTerms(_, _, _, _)
\* lines 76-109 for point i: the Y added to m_Qlmi, for the points from j on
WlTerms(points, rmax, i, j) ==
    IF j >= Len(points) THEN <<>>
    ELSE (IF WlCounts(points, rmax, i, j) THEN <<Ylm(WlDelta(points, i, j))>> ELSE <<>>)
             \o WlTerms(points, rmax, i, j + 1)

\* lines 49-116: m_Qlmi of a point is the sum of its terms divided by
\* neighborcount
LocalWlCompute ==
    /\ obj = "LocalWl"
    /\ wl.pc = "ready"
    /\ LET Np == Len(wl.points)
           terms == [k \in 1 .. Np |-> WlTerms(wl.points, wl.m_rmax, k - 1, 0)]
       IN wl' = [wl EXCEPT !.pc = "done",
                           !.m_Np = Np,
                           !.neighborcount = [k \in 1 .. Np |-> Len(terms[k])],
                           !.m_Qlmi = [k \in 1 .. Np |->
                                          [sum |-> terms[k], divisor |-> Len(terms[k])]]]
    /\ UNCHANGED <<obj, histVars, histObs, pf, ldVars, pmVars, rd, ctor, sann, pmc>>

(***************************************************************************)
(* FilterSANN.  Only the class declaration is in FilterSANN.h; compute is    *)
(* the state machine of the shell filter: per reference point Seeding,       *)
(* Admitting, and the terminal states Converged and IncompleteShell.         *)
(* cand[i] holds the distances of the raw candidates of reference point i   *)
(* in the order of the input list; candidate k of point i is the bond       *)
(* <<i, k>>.                                                                 *)
(***************************************************************************)
SannDists == {1, 3}
SannQueryPoints == {1, 2}

\* the acceptance radius is the mean accepted distance times this factor
SannFactor == 2

SannTerminal == {"Converged", "IncompleteShell"}

SannIdle == [pc |-> "idle", m_allow_incomplete_shell |-> FALSE, cand |-> <<>>,
             st |-> <<>>, warned |-> FALSE, out |-> <<>>]

\* position k comes before position l when the candidates are sorted by
\* ascending distance (ties in input order)
SannBefore(ds, k, l) == ds[k] < ds[l] \/ (ds[k] = ds[l] /\ k < l)

\* the position of the r-th nearest candidate
SannNth(ds, r) ==
    CHOOSE k \in 1 .. Len(ds) :
        Cardinality({l \in 1 .. Len(ds) : SannBefore(ds, l, k)}) = r - 1

\* the positions of the m nearest candidates
SannAccepted(ds, m) == {SannNth(ds, r) : r \in 1 .. m}

RECURSIVE SannSum(_, _)
SannSum(ds, m) == IF m = 0 THEN 0 ELSE ds[SannNth(ds, m)] + SannSum(ds, m - 1)

\* a state machine that waits for another candidate when none is left
SannNext_waits(ds, st) ==
    IF st.state = "Seeding"
    THEN IF Len(ds) < 3
         THEN [state |-> "IncompleteShell", m |-> Len(ds), sum |-> SannSum(ds, Len(ds))]
         ELSE [state |-> "Admitting", m |-> 3, sum |-> SannSum(ds, 3)]
    ELSE IF st.m = Len(ds)
    THEN st
    ELSE LET d == ds[SannNth(ds, st.m + 1)]
         IN IF d * st.m < SannFactor * st.sum
            THEN [st EXCEPT !.m = st.m + 1, !.sum = st.sum + d]
            ELSE [st EXCEPT !.state = "Converged"]

\* one transition of the state machine of a reference point
SannNext(ds, st) ==
    IF st.state = "Seeding"
    THEN IF Len(ds) < 3
         THEN [state |-> "IncompleteShell", m |-> Len(ds), sum |-> SannSum(ds, Len(ds))]
         ELSE [state |-> "Admitting", m |-> 3, sum |-> SannSum(ds, 3)]
    ELSE IF st.m = Len(ds)
    THEN [st EXCEPT !.state = "IncompleteShell"]
    ELSE LET d == ds[SannNth(ds, st.m + 1)]
         IN IF d * st.m < SannFactor * st.sum
            THEN [st EXCEPT !.m = st.m + 1, !.sum = st.sum + d]
            ELSE [st EXCEPT !.state = "Converged"]

\* the bonds of the shells in distance order
SannShell_by_distance(i, ds, m) == [r \in 1 .. m |-> <<i, SannNth(ds, r)>>]

RECURSIVE SannShellFrom(_, _, _, _)
SannShellFrom(i, ds, m, k) ==
    IF k > Len(ds) THEN <<>>
    ELSE (IF k \in SannAccepted(ds, m) THEN <<<<i, k>>>> ELSE <<>>)
             \o SannShellFrom(i, ds, m, k + 1)

\* the bonds of reference point i that are kept: the accepted candidates,
\* in the order of the input list
SannShell(i, ds, m) == SannShellFrom(i, ds, m, 1)

RECURSIVE SannOutput(_, _, _)
SannOutput(cand, st, i) ==
    IF i > Len(cand) THEN <<>>
    ELSE SannShell(i, cand[i], st[i].m) \o SannOutput(cand, st, i + 1)

\* the state machine of the first reference point that has not terminated
\* makes a transition
SannStep ==
    /\ obj = "FilterSANN"
    /\ sann.pc = "running"
    /\ \E i \in DOMAIN sann.st :
           /\ sann.st[i].state \notin SannTerminal
           /\ \A h \in DOMAIN sann.st : h < i => sann.st[h].state \in SannTerminal
           /\ sann' = [sann EXCEPT !.st[i] = SannNext(sann.cand[i], sann.st[i])]
    /\ UNCHANGED <<obj, histVars, histObs, pf, ldVars, pmVars, rd, ctor, wl, pmc>>

\* an unfilled shell stops the call whatever the flag
warnAboutUnfilledNeighborShells_always_raises(unfilled_qps) ==
    IF unfilled_qps = {} THEN [pc |-> "returned", warned |-> FALSE]
    ELSE [pc |-> "IncompleteNeighborShell", warned |-> FALSE]

\* warnAboutUnfilledNeighborShells(unfilled_qps): warn or raise, as
\* m_allow_incomplete_shell says
warnAboutUnfilledNeighborShells(unfilled_qps) ==
    IF unfilled_qps = {} THEN [pc |-> "returned", warned |-> FALSE]
    ELSE IF sann.m_allow_incomplete_shell THEN [pc |-> "returned", warned |-> TRUE]
    ELSE [pc |-> "IncompleteNeighborShell", warned |-> FALSE]

\* every reference point has terminated: compute warns or raises, and when
\* it returns the filtered list is the shells of all points
SannFinish ==
    /\ obj = "FilterSANN"
    /\ sann.pc = "running"
    /\ \A i \in DOMAIN sann.st : sann.st[i].state \in SannTerminal
    /\ LET unfilled == {i \in DOMAIN sann.st : sann.st[i].state = "IncompleteShell"}
           end == warnAboutUnfilledNeighborShells(unfilled)
       IN sann' = [sann EXCEPT !.pc = end.pc,
                               !.warned = end.warned,
                               !.out = IF end.pc = "returned"
                                       THEN SannOutput(sann.cand, sann.st, 1)
                                       ELSE <<>>]
    /\ UNCHANGED <<obj, histVars, histObs, pf, ldVars, pmVars, rd, ctor, wl, pmc>>

(***************************************************************************)
(* Specifications.  Spec: the calls made on a histogram object and on a    *)
(* LocalDescriptors object.  SpecTasks: the parallel sections, task by     *)
(* task.                                                                   *)
(***************************************************************************)
Init ==
    /\ obj \in {"NdHistogram", "LocalDescriptors"}
    /\ HistInit
    /\ obj = "LocalDescriptors" => m_reduce
    /\ pf = PfIdle
    /\ LdInit
    /\ PmInit /\ pm_build = "SSE2"
    /\ rd = RdIdle
    /\ ctor = CtorIdle
    /\ wl = WlIdle
    /\ sann = SannIdle
    /\ pmc = PmcIdle

Next ==
    \/ accumulate
    \/ getPCF
    \/ getBinCounts
    \/ reduce
    \/ reset
    \/ LocalDescriptorsCompute

Spec == Init /\ [][Next]_vars

InitTasks ==
    /\ obj \in {"parallel_for", "reduce3D", "compute", "PMFTXYTM2D", "constructor", "LocalWl",
               "useCells"}
    /\ HistInit /\ m_reduce
    /\ IF obj = "parallel_for"
       THEN \E l \in NLists, W \in SUBSET Workers :
                \E sc \in Schedules(l.nq) : pf = PfInputs(l, sc, W)
       ELSE pf = PfIdle
    /\ LdInit
    /\ PmInit
    /\ IF obj = "PMFTXYTM2D" THEN pm_build \in {"SSE2", "plain"} ELSE pm_build = "SSE2"
    /\ IF obj = "reduce3D"
       THEN \E W \in SUBSET Workers, cuts \in SUBSET (1 .. (BinSize - 1)) :
                \E locals \in [W -> [Bins -> 0 .. 1]] : rd = RdInputs(locals, cuts)
       ELSE rd = RdIdle
    /\ IF obj = "constructor"
       THEN \/ \E box \in CtorBoxes, max_x, max_y, max_T \in CutoffValues,
                  dx, dy, dT \in WidthValues :
                  ctor = [pc |-> "ready", class |-> "PMFTXYTM2D", result |-> "none",
                          box |-> box, max_x |-> max_x, max_y |-> max_y,
                          max_T |-> max_T, dx |-> dx, dy |-> dy, dT |-> dT]
            \/ \E rmax \in CutoffValues, l \in LValues :
                  ctor = [pc |-> "ready", class |-> "LocalWl", result |-> "none",
                          rmax |-> rmax, l |-> l]
       ELSE ctor = CtorIdle
    /\ IF obj = "LocalWl"
       THEN \E Np \in 0 .. MaxNp, rmax \in WlRmax :
                \E points \in [1 .. Np -> WlPoints] :
                    wl = [WlIdle EXCEPT !.pc = "ready", !.m_rmax = rmax,
                                        !.points = points]
       ELSE wl = WlIdle
    /\ sann = SannIdle
    /\ IF obj = "useCells"
       THEN \E box \in PmcBoxes, max_x, max_y \in PmcCutoffs, r \in PmcRefStates,
               Np \in 1 .. MaxNp :
                \E points \in [1 .. Np -> PmcPoints] :
                    pmc = [pc |-> "ready", m_box |-> box, m_max_x |-> max_x,
                           m_max_y |-> max_y, m_lc |-> "wild",
                           in |-> [ref_point |-> r[1], ref_orientation |-> r[2],
                                   points |-> points],
                           path |-> "none", wild |-> FALSE, binned |-> {}]
       ELSE pmc = PmcIdle

NextTasks ==
    \/ parallel_for
    \/ reduce3D_tasks
    \/ construct
    \/ LocalWlCompute
    \/ LocalDescriptorsCompute
    \/ PmComputeBegin
    \/ \E s \in 0 .. (MaxNref - 1) : PmTaskStep(s)
    \/ PmComputeEnd
    \/ PmComputeThrows
    \/ computePyRejects
    \/ PmConstruct
    \/ PmCompute
    \/ PmDestroy

SpecTasks == InitTasks /\ [][NextTasks]_vars

\* FilterSANN::compute on one list; a call that has started is carried on
\* until it returns or raises
InitSANN ==
    /\ obj = "FilterSANN"
    /\ HistInit /\ m_reduce
    /\ pf = PfIdle
    /\ LdInit
    /\ PmInit /\ pm_build = "SSE2"
    /\ rd = RdIdle
    /\ ctor = CtorIdle
    /\ wl = WlIdle
    /\ \E allow \in BOOLEAN, nq \in SannQueryPoints :
           \E cand \in [1 .. nq -> UNION {[1 .. n -> SannDists] : n \in 0 .. MaxCand}] :
               sann = [pc |-> "running", m_allow_incomplete_shell |-> allow,
                       cand |-> cand,
                       st |-> [i \in 1 .. nq |-> [state |-> "Seeding", m |-> 0, sum |-> 0]],
                       warned |-> FALSE, out |-> <<>>]
    /\ pmc = PmcIdle

NextSANN ==
    \/ SannStep
    \/ SannFinish

SpecSANN == InitSANN /\ [][NextSANN]_vars /\ WF_vars(NextSANN)

(***************************************************************************)
(* Properties.                                                             *)
(***************************************************************************)
Range(seq) == {seq[k] : k \in 1 .. Len(seq)}

Getters == {"getPCF", "getBinCounts"}

\* C1: once the parallel_for of accumulateGeneral has run on a validated,
\* sorted list, cf has been invoked for every pair (i, j) as many times as
\* the list holds the bond (i, j), and for no pair that is not a bond,
\* whatever the split into blocks and the threads that ran them.
C1_EachBondOnce ==
    pf.pc = "done" =>
        \A pr \in Range(pf.calls) \cup Range(pf.nlist.bonds) :
            Count(pf.calls, pr) = Count(pf.nlist.bonds, pr)

\* a run split into two blocks, on a list with bonds in which some reference
\* point has none
C1_Witness ==
    /\ pf.pc = "done"
    /\ pf.sched.cuts # {}
    /\ pf.calls # <<>>
    /\ \E i \in 0 .. (pf.nlist.nq - 1) : \A pr \in Range(pf.nlist.bonds) : pr[1] # i

\* C2: a getter runs reduce() exactly when m_reduce is set at the call, it
\* returns with m_reduce clear, and what it returns are the object's arrays
\* as that reduction left them: the bin counts are the bonds accumulated
\* per bin, and the normalised value times frames * n_ref * n_p is the bin
\* count times the box volume.
C2_GetterReducesIffFlag ==
    [][lastOp' \in Getters =>
          /\ ranReduce' = m_reduce
          /\ m_reduce' = FALSE
          /\ ret'.kind = "counts" => ret'.counts = m_bin_counts'
          /\ ret'.kind = "pcf" => ret'.pcf = m_pcf_array'
          /\ m_reduce =>
                /\ m_bin_counts' = expected
                /\ \A b \in Bins :
                      m_pcf_array'[b].k = "fin" =>
                          m_pcf_array'[b].n * (m_frame_counter * m_n_ref * m_n_p)
                              = m_pcf_array'[b].d * (expected[b] * m_box)]_vars

\* a getter that has run the reduction and returned non-zero counts
C2_Witness ==
    /\ lastOp = "getBinCounts"
    /\ ranReduce
    /\ ~m_reduce
    /\ \E b \in Bins : ret.counts[b] > 0

\* C3: the getters called since the last successful accumulate have run
\* reduce() at most once.
C3_AtMostOneReduce == getterReduces <= 1

\* a getter call that found the reduction already done by an earlier getter
C3_Witness ==
    /\ lastOp \in Getters
    /\ ~ranReduce
    /\ getterReduces = 1
    /\ m_frame_counter > 0

\* C4: a direct reduce() returns with m_reduce clear, and a getter called
\* right after it does not run the reduction.
C4_ReduceClearsFlag ==
    [][/\ lastOp' = "reduce" => m_reduce' = FALSE
       /\ (lastOp = "reduce" /\ lastOp' \in Getters) => ~ranReduce']_vars

\* C5: as long as no accumulate and no reset is called, every reduction
\* leaves the bin counts and the normalised array as the first one did.
C5_ReduceIdempotent ==
    firstReduced.set =>
        /\ m_bin_counts = firstReduced.counts
        /\ m_pcf_array = firstReduced.pcf

\* reduce() called twice in a row on non-zero counts
C5_Witness ==
    /\ lastOp = "reduce"
    /\ reduceStreak = 2
    /\ firstReduced.set
    /\ \E b \in Bins : m_bin_counts[b] > 0

\* C6: after a reduction every bin holds the number of bonds of all
\* accumulated lists that cf puts in that bin: a number that depends on
\* the lists only, not on the blocks nor on the threads that ran them.
C6_ReducedCountsAreBondCounts ==
    ranReduce => m_bin_counts = expected

\* a reduction over two accumulate calls whose bonds went to two threads
C6_Witness ==
    /\ ranReduce
    /\ m_frame_counter >= 2
    /\ \E v, w \in DOMAIN m_local_bin_counts :
           /\ v # w
           /\ \E b \in Bins : m_local_bin_counts[v][b] > 0
           /\ \E b \in Bins : m_local_bin_counts[w][b] > 0

\* C7: an accumulate in which validate throws leaves the reduced bin
\* counts, the normalised array, the frame counter, the flag and every
\* thread-local array as they were.
C7_FailedAccumulateKeepsState ==
    [][lastOp' = "accumulate_throw" =>
          UNCHANGED <<m_bin_counts, m_pcf_array, m_frame_counter, m_reduce,
                      m_local_bin_counts>>]_vars

\* a failed accumulate on an object with accumulated, unreduced counts
C7_Witness ==
    /\ lastOp = "accumulate_throw"
    /\ m_reduce
    /\ m_frame_counter > 0
    /\ \E w \in DOMAIN m_local_bin_counts : \E b \in Bins : m_local_bin_counts[w][b] > 0

\* C8: when validate throws, accumulateGeneral has run no task (no thread
\* has got an array, no thread-local bin has changed) and
\* LocalDescriptors::compute has neither prepared nor written m_sphArray.
C8_ValidateBeforeWork ==
    [][/\ lastOp' = "accumulate_throw" =>
             m_local_bin_counts' = m_local_bin_counts
       /\ ldLastOp' = "throw_validate" =>
             /\ m_sphArray' = m_sphArray
             /\ ldWrites' = {}
             /\ UNCHANGED <<m_n_points, m_nSphs>>]_vars

\* a LocalDescriptors::compute that failed in validate on an object that
\* holds the rows of an earlier call
C8_Witness ==
    /\ ldLastOp = "throw_validate"
    /\ m_sphArray # <<>>
    /\ \E b \in DOMAIN m_sphArray : m_sphArray[b] # ZeroRow

\* no bin of a thread-local array is written by two threads, and a thread
\* writes its own array only
HistWritesDisjoint ==
    /\ \A a \in pf.writes : a[2] = a[1]
    /\ \A a, b \in pf.writes : (a[2] = b[2] /\ a[3] = b[3]) => a[1] = b[1]

\* no row of m_sphArray is written by two tasks
LdWritesDisjoint ==
    \A a, b \in ldWrites : a[2] = b[2] => a[1] = b[1]

\* no bin of pcf_array is written by two tasks
PmWritesDisjoint ==
    \A a, b \in pmWrites : a[2] = b[2] => a[1] = b[1]

C10_FrameCounter ==
    [][/\ lastOp' = "accumulate" =>
             /\ m_frame_counter' = m_frame_counter + 1
             /\ m_reduce' = TRUE
       /\ lastOp' \in Getters \cup {"reduce"} =>
             m_frame_counter' = m_frame_counter]_vars

\* a second successful accumulate
C10_Witness ==
    /\ lastOp = "accumulate"
    /\ m_frame_counter = 2
    /\ m_reduce

\* C11: in reduce3D every bin of the reduced bin counts and of the
\* normalised array is written by exactly one task, the bin count it is
\* left with is the sum of that bin over all thread-local arrays, and the
\* thread-local arrays are as they were.
C11_ReduceWritesDisjoint ==
    rd.pc = "done" =>
        /\ \A i \in Bins :
               /\ Cardinality({w \in rd.countWrites : w[2] = i}) = 1
               /\ Cardinality({w \in rd.pcfWrites : w[2] = i}) = 1
               /\ rd.counts[i] = ReduceBinSum(rd.before, i)
        /\ rd.locals = rd.before

\* a reduction split into two blocks over the arrays of two threads, both
\* with counts
C11_Witness ==
    /\ rd.pc = "done"
    /\ rd.cuts # {}
    /\ Cardinality(DOMAIN rd.before) >= 2
    /\ \A w \in DOMAIN rd.before : \E i \in Bins : rd.before[w][i] > 0
    /\ \E i \in Bins : rd.counts[i] >= 2

\* the thread that runs the task of reference point i
ThreadOf(sched, i) ==
    sched.thr[CHOOSE s \in {0} \cup sched.cuts :
                  /\ s <= i
                  /\ \A t \in {0} \cup sched.cuts : t <= i => t <= s]

\* the cf invocations of thread w that increment bin b
CallsInto(w, b) ==
    Cardinality({k \in 1 .. Len(pf.calls) :
                     /\ ThreadOf(pf.sched, pf.calls[k][1]) = w
                     /\ BinOf(pf.calls[k][1], pf.calls[k][2]) = b})

\* C12: an accumulate allocates an array exactly for the threads that run
\* one of its tasks and had none, the new array starts from zero, and a
\* thread that had an array keeps it with its counts: after the call every
\* array holds what it held before plus the bonds its thread has binned.
C12_LazyLocalArrays ==
    pf.pc = "done" =>
        LET ran == {pf.sched.thr[s] : s \in DOMAIN pf.sched.thr}
        IN /\ pf.allocs = ran \ DOMAIN pf.before
           /\ DOMAIN pf.locals = DOMAIN pf.before \cup pf.allocs
           /\ \A w \in DOMAIN pf.locals : \A b \in Bins :
                  pf.locals[w][b] =
                      (IF w \in DOMAIN pf.before THEN pf.before[w][b] ELSE 0)
                          + CallsInto(w, b)

\* a call in which one thread reuses its array and another gets a new one,
\* both binning bonds
C12_Witness ==
    /\ pf.pc = "done"
    /\ pf.allocs # {}
    /\ \E w \in DOMAIN pf.before : \E b \in Bins : CallsInto(w, b) > 0
    /\ \E w \in pf.allocs : \E b \in Bins : CallsInto(w, b) > 0

\* C13: a PMFTXYTM2D constructed with one of dx, dy, dT, max_x, max_y,
\* max_T less than or equal to zero, and a LocalWl constructed with rmax less
\* than or equal to zero, ends in std::invalid_argument.
C13_NonPositiveRejected ==
    ctor.pc = "done" =>
        /\ (/\ ctor.class = "PMFTXYTM2D"
            /\ \E v \in {ctor.dx, ctor.dy, ctor.dT, ctor.max_x, ctor.max_y, ctor.max_T} :
                   v <= 0)
               => ctor.result = "invalid_argument"
        /\ (ctor.class = "LocalWl" /\ ctor.rmax <= 0)
               => ctor.result = "invalid_argument"

\* C14: a PMFTXYTM2D constructed with max_x or max_y above half of
\* min(Lx, Ly) ends in std::invalid_argument.
C14_HalfBoxRejected ==
    (/\ ctor.pc = "done"
     /\ ctor.class = "PMFTXYTM2D"
     /\ \/ 2 * ctor.max_x > Min(ctor.box.Lx, ctor.box.Ly)
        \/ 2 * ctor.max_y > Min(ctor.box.Lx, ctor.box.Ly))
        => ctor.result = "invalid_argument"

\* the pairs (i, j) of a PMFTXYTM2D::compute call with a non-zero
\* separation
PmSeparatedPairs ==
    {<<i, j>> \in (0 .. (pm_in.Nref - 1)) \X (0 .. (pm_in.Np - 1)) :
        wrap(<<pm_in.points[j + 1][1] - pm_in.ref_points[i + 1][1],
               pm_in.points[j + 1][2] - pm_in.ref_points[i + 1][2]>>) # <<0, 0>>}

RECURSIVE PmTotal(_)
\* the increments compute has made to a set of bins of pcf_array
PmTotal(bins) ==
    IF bins = {} THEN 0
    ELSE LET b == CHOOSE x \in bins : TRUE
         IN (pcf_array[b] - pm_in.before[b]) + PmTotal(bins \ {b})

\* C15: a pair of distinct points with zero separation contributes nothing:
\* PMFTXYTM2D::compute makes no more increments than there are pairs with a
\* non-zero separation, and LocalWl::compute adds no term to m_Qlmi and
\* nothing to the neighbour count for such a pair.
C15_CoincidentPairsSkipped ==
    /\ pm_pc = "returned" => PmTotal(PmBins) <= Cardinality(PmSeparatedPairs)
    /\ wl.pc = "done" =>
           \A i \in 0 .. (wl.m_Np - 1) :
               /\ \A k \in 1 .. Len(wl.m_Qlmi[i + 1].sum) : wl.m_Qlmi[i + 1].sum[k] # "nan"
               /\ wl.neighborcount[i + 1] =
                      Cardinality({j \in 0 .. (wl.m_Np - 1) :
                                      /\ WlCounts(wl.points, wl.m_rmax, i, j)
                                      /\ WlDelta(wl.points, i, j) # <<0, 0>>})

\* C16: in computePy the interpreter lock is released exactly while
\* PMFTXYTM2D::compute runs: it is held when the arrays are rejected, not
\* held from the moment compute is entered, and held again once compute has
\* returned or thrown.
C16_LockReleasedDuringCompute ==
    pm_gil = (pm_pc # "running")

\* compute has thrown after some of its tasks had incremented bins
C16_Witness ==
    /\ pm_pc = "thrown"
    /\ pm_gil
    /\ pmWrites # {}

RECURSIVE IsSubsequence(_, _)
\* the elements of a occur in b, in the same order
IsSubsequence(a, b) ==
    IF a = <<>> THEN TRUE
    ELSE IF b = <<>> THEN FALSE
    ELSE IF a[1] = b[1] THEN IsSubsequence(Tail(a), Tail(b))
    ELSE IsSubsequence(a, Tail(b))

\* the bonds of reference point i in a list of bonds
BondsOf(bonds, i) == SelectSeq(bonds, LAMBDA pr : pr[1] = i)

\* C17: when FilterSANN::compute returns, the bonds it kept for a reference
\* point are a subsequence of that point's bonds in the input list, in the
\* same order; the filtered list holds bonds of the input's reference
\* points only.
C17_OutputIsSubsequence ==
    sann.pc = "returned" =>
        /\ \A i \in DOMAIN sann.cand :
               IsSubsequence(BondsOf(sann.out, i),
                             [k \in 1 .. Len(sann.cand[i]) |-> <<i, k>>])
        /\ \A k \in 1 .. Len(sann.out) : sann.out[k][1] \in DOMAIN sann.cand

\* a returned list that drops a candidate lying before a kept one in the
\* input: the kept bonds are not a prefix of the input's
C17_Witness ==
    /\ sann.pc = "returned"
    /\ \E i \in DOMAIN sann.cand :
           \E k \in 2 .. Len(sann.cand[i]) :
               /\ <<i, k>> \in Range(sann.out)
               /\ <<i, k - 1>> \notin Range(sann.out)

\* the reference points that ended in IncompleteShell
SannUnfilled == {i \in DOMAIN sann.st : sann.st[i].state = "IncompleteShell"}

\* C18: once the call has ended: with a point in IncompleteShell it has
\* returned with a warning and all candidates of that point kept when
\* allow_incomplete_shell is set, and has raised IncompleteNeighborShell
\* when it is not; with every point Converged it has returned without a
\* warning.
C18_IncompleteShellPolicy ==
    sann.pc # "running" =>
        IF SannUnfilled = {}
        THEN sann.pc = "returned" /\ ~sann.warned
        ELSE IF sann.m_allow_incomplete_shell
        THEN /\ sann.pc = "returned"
             /\ sann.warned
             /\ \A i \in SannUnfilled :
                    Len(BondsOf(sann.out, i)) = Len(sann.cand[i])
        ELSE sann.pc = "IncompleteNeighborShell"

\* a call that returned with a warning: one point with an unfilled shell of
\* two candidates, another point converged
C18_Witness ==
    /\ sann.pc = "returned"
    /\ sann.warned
    /\ \E i \in SannUnfilled : Len(sann.cand[i]) = 2
    /\ \E i \in DOMAIN sann.st : sann.st[i].state = "Converged"

\* a state machine that has terminated is in the terminal state its
\* candidates call for
SannTerminalRight(i) ==
    LET ds == sann.cand[i]
        st == sann.st[i]
    IN /\ st.sum = SannSum(ds, st.m)
       /\ st.state = "Converged" <=>
              /\ st.m >= 3
              /\ st.m < Len(ds)
              /\ ~(ds[SannNth(ds, st.m + 1)] * st.m < SannFactor * st.sum)
       /\ st.state = "IncompleteShell" <=> st.m = Len(ds)

C20_ResetThenGetterReturnsZeros ==
    [][/\ lastOp' = "reset" =>
              /\ m_bin_counts' = ZeroCounts
              /\ m_pcf_array' = ZeroPcf
              /\ ~m_reduce'
       /\ (lastOp = "reset" /\ lastOp' \in Getters) =>
              /\ ~ranReduce'
              /\ ret'.kind = "counts" => ret'.counts = ZeroCounts
              /\ ret'.kind = "pcf" => ret'.pcf = ZeroPcf]_vars

\* getBinCounts has returned zeros without reducing although bonds were
\* accumulated: the reduced histogram was reset and nothing accumulated
\* since
C20_Witness ==
    /\ lastOp = "getBinCounts"
    /\ ~ranReduce
    /\ ret.counts = ZeroCounts
    /\ \E b \in Bins : expected[b] > 0

\* C21: on an object that has a cell list, the cell-list path comes exactly
\* once to every point that the all-pairs path bins with the reference
\* point, so that compute bins the same pairs on either path.
C21_CellListFindsAllPairs ==
    (pmc.pc = "computed" /\ pmc.path = "WithCellList") =>
        /\ \A j \in WithoutCellList(pmc, pmc.in) : CellListVisits(pmc, pmc.in, j) = 1
        /\ pmc.binned = WithoutCellList(pmc, pmc.in)

\* C28: m_lc is dereferenced (compute) and deleted (destructor) only when
\* the constructor has allocated it, and an object that has a cell list has
\* max(max_x, max_y) below half of the smaller side of its box.
C28_CellListOnlyWhenAllocated ==
    pmc.pc \in {"constructed", "computed", "destroyed"} =>
        /\ ~pmc.wild
        /\ pmc.path = "WithCellList" => pmc.m_lc \in {"allocated", "deleted"}
        /\ pmc.m_lc \in {"allocated", "deleted"} =>
               2 * max_val(pmc) < Min(pmc.m_box.Lx, pmc.m_box.Ly)

\* an object with a cell list that has computed and been destroyed
C28_Witness ==
    /\ pmc.pc = "destroyed"
    /\ pmc.path = "WithCellList"
    /\ pmc.m_lc = "deleted"

\* C22: after a LocalDescriptors::compute that returned, every row b of
\* m_sphArray, b in [0, getNumBonds()), holds the harmonics of bond b of the
\* list, whatever the counts n_query_points and n_points the list validates
\* against.
C22_OneRowPerBond ==
    ldLastOp = "returned" =>
        /\ Len(m_sphArray) = getNumBonds(ldCall.nlist)
        /\ \A b \in 1 .. getNumBonds(ldCall.nlist) :
               m_sphArray[b] = ldCall.nlist.bonds[b]

\* C25: LocalDescriptors::compute reads points below n_points, query_points
\* below n_query_points, and orientations at the points it walks as
\* reference points, for every list that validate lets through.
C25_ReadsInBounds ==
    \A r \in ldCall.reads :
        /\ r[1] = "points" => r[2] < ldCall.n_points
        /\ r[1] = "query_points" => r[2] < ldCall.n_query_points
        /\ r[1] = "orientations" => r[2] < ldCall.n_points

\* C26: after any sequence of LocalDescriptors::compute calls, returned or
\* failed, m_nSphs is the number of rows of m_sphArray and m_n_points is the
\* point count of the call that prepared m_sphArray.
C26_CountsMatchArray ==
    /\ m_nSphs = Len(m_sphArray)
    /\ m_n_points = ldCall.n_points

\* the reduced counts were reset and nothing has been accumulated since:
\* the flag is clear and the reduced counts are zero
ResetPending == ~m_reduce /\ m_bin_counts = ZeroCounts

\* C23: a getter that follows k >= 1 successful accumulate calls returns bin
\* counts that are, bin by bin, the sum of the increments of all the calls,
\* however many getter and reduce calls came in between (no reset having
\* emptied the reduced arrays since the last accumulate).
C23_CountsSumOverFrames ==
    [][(lastOp' = "getBinCounts" /\ m_frame_counter >= 1 /\ ~ResetPending) =>
           /\ ret'.counts = expected
           /\ m_bin_counts' = expected]_vars

\* a getter that shows, without reducing again, a bin with more bonds than
\* one accumulate call can bring
C23_Witness ==
    /\ lastOp = "getBinCounts"
    /\ m_frame_counter = 2
    /\ ~ranReduce
    /\ firstReduced # NoSnapshot
    /\ \E b \in Bins : ret.counts[b] > MaxBonds

\* C24: an accumulate call that fails in validate leaves every field of the
\* histogram as it was, the stored box included.
C24_FailedAccumulateKeepsEveryField ==
    [][lastOp' = "accumulate_throw" =>
           UNCHANGED <<m_box, m_frame_counter, m_n_ref, m_n_p, m_reduce, m_pcf_array,
                       m_bin_counts, m_local_bin_counts>>]_vars

\* the pairs (i, j) of the compute call
PmPairs == (0 .. (pm_in.Nref - 1)) \X (0 .. (pm_in.Np - 1))

C29_BinCountsWellDefined ==
    (ctor.pc = "done" /\ ctor.class = "PMFTXYTM2D" /\ ctor.result # "invalid_argument") =>
        /\ ctor.result = "constructed"
        /\ \A a \in {<<ctor.max_x, ctor.dx>>, <<ctor.max_y, ctor.dy>>,
                      <<ctor.max_T, ctor.dT>>} :
               /\ a[2] # 0
               /\ nbins(a[1], a[2]) >= 2
               /\ nbins(a[1], a[2]) % 2 = 0

\* C30: in LocalWl::compute the neighbour count that divides the accumulated
\* Qlm of a particle is at least 1 for every particle, so no particle is
\* divided by zero.
C30_NeighbourCountPositive ==
    wl.pc = "done" =>
        \A i \in 1 .. wl.m_Np :
            /\ wl.neighborcount[i] >= 1
            /\ wl.m_Qlmi[i].divisor >= 1

====
